---- MODULE Spec2Model ----
(***************************************************************************)
(* A model of filesystem/core.py: the lazy post-order empty-directory      *)
(* finder (find_empty_directories), the recursive file search (find_files) *)
(* and try_rmdir, over a small directory tree.                             *)
(*                                                                         *)
(* A name is a sequence of characters, a path is the sequence of names     *)
(* from the root downwards; the root given to a search is the empty path.  *)
(* A generator is a stack of frames (one per active call of the nested     *)
(* recursive function), the innermost call first.  Each filesystem call    *)
(* (is_dir, iterdir, rmdir) is one step, so another process may act        *)
(* between two of them.                                                    *)
(***************************************************************************)
EXTENDS Naturals, Sequences, FiniteSets

VARIABLES
    dirs,           \* the paths that are directories
    files,          \* the paths that are non-directory entries
    unreadable,     \* directories whose listing is denied (no read permission)
    nowrite,        \* directories in which no entry may be removed
    recursively,    \* find_empty_directories' flag
    deleting,       \* whether the consumer removes each yielded directory
    budget,         \* how many more times another process changes the tree
    extensions,     \* find_files' tuple of allowed extensions
    excluded_dirs,  \* find_files' excluded directory names
    stack,          \* the generator's active frames, innermost first
    pc,             \* "init" (created, not started), "run", "yield" (suspended at a
                    \* yield), "done", "raised"; "idle" when no generator is in play
    error,          \* the exception that ended the generator, or "none"
    yielded,        \* the sequence of paths produced so far
    listed,         \* the directories iterdir() has been called on
    initDirs,       \* the directories when the generator was created
    initFiles,      \* the files when the generator was created
    gone,           \* directories removed by another process while pending
    skipped,        \* members of gone the loop passed over without an error
    rmArg,          \* the argument of the last try_rmdir call
    rmResult,       \* its outcome: "True", "False", "raised" or "none"
    calls           \* number of try_rmdir calls made

vars == << dirs, files, unreadable, nowrite, recursively, deleting, budget,
           extensions, excluded_dirs, stack, pc, error, yielded, listed,
           initDirs, initFiles, gone, skipped, rmArg, rmResult, calls >>

fsVars == << dirs, files, unreadable, nowrite >>
inputVars == << recursively, deleting, extensions, excluded_dirs, initDirs, initFiles >>
rmVars == << rmArg, rmResult, calls >>

----------------------------------------------------------------------------
(* Bounds *)

MaxDepth == 2
MaxEntries == 3
MaxThird == 1
MaxAloneDepth == 3
MaxAloneEntries == 5
MaxCalls == 2
MaxFileDepth == 3
MaxFileEntries == 4

----------------------------------------------------------------------------
(* Paths and the directory tree *)

Root == << >>

Parent(p) == SubSeq(p, 1, Len(p) - 1)

Name(p) == p[Len(p)]

IsProperPrefix(a, d) == Len(a) < Len(d) /\ SubSeq(d, 1, Len(a)) = a

ChildrenIn(entries, p) == { q \in entries : q # Root /\ Parent(q) = p }

DirNames == { <<"a">>, <<"b">> }

FileTreeNames == { <<"d">>, <<"f", ".", "t">>, <<".", "t">> }

\* Every way to add one entry (a directory or a file) to tree t.
Grow(t, names, depth) ==
    LET free == { Append(d, n) : d \in { x \in t.dirs : Len(x) < depth }, n \in names }
                  \ (t.dirs \cup t.files)
    IN  { [dirs |-> t.dirs \cup {p}, files |-> t.files] : p \in free }
        \cup { [dirs |-> t.dirs, files |-> t.files \cup {p}] : p \in free }

RECURSIVE Trees(_, _, _)
\* Every tree below an existing root directory with at most n entries.
Trees(n, names, depth) ==
    IF n = 0 THEN { [dirs |-> {Root}, files |-> {}] }
    ELSE LET smaller == Trees(n - 1, names, depth)
         IN  smaller \cup UNION { Grow(t, names, depth) : t \in smaller }

\* A root that is missing, and a root that is a regular file.
BadRoots == { [dirs |-> {}, files |-> {}], [dirs |-> {}, files |-> {Root}] }

----------------------------------------------------------------------------
(* pathlib, as core.py uses it *)

is_dir(p) == p \in dirs

iterdir(p) == ChildrenIn(dirs \cup files, p)

iterdirFails(p) == p \notin dirs \/ p \in unreadable

\* Path.rmdir(): "OK", or the errno of the OSError it raises.
rmdirErrno(p) ==
    IF p \notin dirs THEN (IF p \in files THEN "ENOTDIR" ELSE "ENOENT")
    ELSE IF p # Root /\ Parent(p) \in nowrite THEN "EACCES"
    ELSE IF iterdir(p) # {} THEN "ENOTEMPTY"
    ELSE "OK"

RECURSIVE LastDot(_, _)
\* name.rfind("."): the last index of a dot in name at or below i, 0 if none.
LastDot(name, i) ==
    IF i = 0 THEN 0
    ELSE IF name[i] = "." THEN i
    ELSE LastDot(name, i - 1)

\* PurePath.suffix: the last dot-separated part of the name, with its dot, unless
\* the only dot leads or ends the name.
suffix(p) ==
    IF p = Root THEN << >>
    ELSE LET name == Name(p)
             i == LastDot(name, Len(name))
         IN  IF 1 < i /\ i < Len(name) THEN SubSeq(name, i, Len(name)) ELSE << >>

----------------------------------------------------------------------------
(* try_rmdir *)

CaughtOnlyNotEmpty(errno) == errno = "ENOTEMPTY"

\* "except Exception" catches every OSError.
Caught(errno) == TRUE

try_rmdir(folder) ==
    LET errno == rmdirErrno(folder)
    IN  IF errno = "OK" THEN "True"
        ELSE IF Caught(errno) THEN "False"
        ELSE "raised"

DirsAfterRmdir(folder) ==
    IF rmdirErrno(folder) = "OK" THEN dirs \ {folder} ELSE dirs

----------------------------------------------------------------------------
(* Generator frames *)

NewFrame(p) == [root |-> p, ip |-> 1, listed |-> FALSE, pending |-> {}]

RECURSIVE Settle(_, _)
\* Runs the innermost frame up to its next filesystem call: an exhausted loop
\* moves on to the next statement, a finished body returns to its caller.
Settle(s, body) ==
    IF s = << >> THEN s
    ELSE LET f == Head(s)
         IN  IF f.ip > Len(body) THEN Settle(Tail(s), body)
             ELSE IF body[f.ip] = "loop" /\ f.listed /\ f.pending = {}
                  THEN Settle(<< [f EXCEPT !.ip = @ + 1] >> \o Tail(s), body)
                  ELSE s

PcAfter(s) == IF s = << >> THEN "done" ELSE "run"

Raise(exc) ==
    /\ pc' = "raised"
    /\ error' = exc
    /\ stack' = << >>

----------------------------------------------------------------------------
(* find_empty_directories *)

FindBodyPreorder == << "check", "loop" >>

\* The statements of _find, in order: the loop over the children, then the
\* emptiness check.
FindBody == << "loop", "check" >>

RootCheckExists(root) == root \in dirs \cup files

RootCheck(root) == is_dir(root)

ShouldDescend(path) == is_dir(path) /\ recursively

EmptyCheckUpfront(root) == ChildrenIn(initDirs \cup initFiles, root) = {}

EmptyCheckFilesOnly(root) == iterdir(root) \cap files = {}

\* "not any(root.iterdir())", a fresh listing.
EmptyCheck(root) == iterdir(root) = {}

RemainingSame(pending, path) == pending

Remaining(pending, path) == pending \ {path}

ListingErrorSuppressed(root) == FALSE

ListingError(root) == iterdirFails(root)

Top == Head(stack)

Stmt == FindBody[Top.ip]

\* The first pull: the generator body starts with the check of root.
Start ==
    /\ pc = "init"
    /\ IF RootCheck(Root)
       THEN /\ stack' = << NewFrame(Root) >>
            /\ pc' = "run"
            /\ error' = error
       ELSE Raise("ValueError")
    /\ UNCHANGED << fsVars, inputVars, budget, yielded, listed, gone, skipped, rmVars >>

\* "for path in root.iterdir()": the listing is read once, when the loop starts.
List ==
    /\ pc = "run"
    /\ Stmt = "loop"
    /\ ~Top.listed
    /\ listed' = listed \cup {Top.root}
    /\ IF ListingError(Top.root)
       THEN Raise("OSError")
       ELSE /\ stack' = Settle(<< [Top EXCEPT !.listed = TRUE,
                                              !.pending = iterdir(Top.root)] >>
                                \o Tail(stack), FindBody)
            /\ pc' = PcAfter(stack')
            /\ error' = error
    /\ UNCHANGED << fsVars, inputVars, budget, yielded, gone, skipped, rmVars >>

\* One iteration of the loop: the next path of the listing, in any order.
Loop ==
    /\ pc = "run"
    /\ Stmt = "loop"
    /\ Top.listed
    /\ \E path \in Top.pending :
         LET rest == [Top EXCEPT !.pending = Remaining(@, path)]
         IN  IF ShouldDescend(path)
             THEN /\ stack' = << NewFrame(path), rest >> \o Tail(stack)
                  /\ pc' = "run"
                  /\ skipped' = skipped
             ELSE /\ stack' = Settle(<< rest >> \o Tail(stack), FindBody)
                  /\ pc' = PcAfter(stack')
                  /\ skipped' = IF path \in gone /\ recursively
                                THEN skipped \cup {path} ELSE skipped
    /\ UNCHANGED << fsVars, inputVars, budget, error, yielded, listed, gone, rmVars >>

\* "if not any(root.iterdir()): yield root"
Check ==
    /\ pc = "run"
    /\ Stmt = "check"
    /\ listed' = listed \cup {Top.root}
    /\ LET after == << [Top EXCEPT !.ip = @ + 1] >> \o Tail(stack)
       IN  IF ListingError(Top.root)
           THEN /\ Raise("OSError")
                /\ yielded' = yielded
           ELSE IF EmptyCheck(Top.root)
           THEN /\ yielded' = Append(yielded, Top.root)
                /\ pc' = "yield"
                /\ stack' = after
                /\ error' = error
           ELSE /\ yielded' = yielded
                /\ stack' = Settle(after, FindBody)
                /\ pc' = PcAfter(stack')
                /\ error' = error
    /\ UNCHANGED << fsVars, inputVars, budget, gone, skipped, rmVars >>

\* The consumer keeps the yielded directory and asks for the next value.
Pull ==
    /\ pc = "yield"
    /\ ~deleting
    /\ stack' = Settle(stack, FindBody)
    /\ pc' = PcAfter(stack')
    /\ UNCHANGED << fsVars, inputVars, budget, error, yielded, listed, gone, skipped, rmVars >>

\* The consumer removes the yielded directory, then asks for the next value.
PullAfterRemoving ==
    /\ pc = "yield"
    /\ deleting
    /\ dirs' = DirsAfterRmdir(yielded[Len(yielded)])
    /\ stack' = Settle(stack, FindBody)
    /\ pc' = PcAfter(stack')
    /\ UNCHANGED << files, unreadable, nowrite, inputVars, budget, error, yielded,
                    listed, gone, skipped, rmVars >>

----------------------------------------------------------------------------
(* Another process changing the tree during the traversal *)

Pending == UNION { stack[i].pending : i \in 1..Len(stack) }

Active == pc \in {"run", "yield"} /\ budget > 0

\* rm -r d
ThirdPartyRemove ==
    /\ Active
    /\ \E d \in dirs :
         LET lost == { q \in dirs \cup files : q = d \/ IsProperPrefix(d, q) }
         IN  /\ dirs' = dirs \ lost
             /\ files' = files \ lost
             /\ unreadable' = unreadable \ lost
             /\ gone' = gone \cup (lost \cap dirs \cap Pending)
    /\ budget' = budget - 1
    /\ UNCHANGED << nowrite, inputVars, stack, pc, error, yielded, listed, skipped, rmVars >>

\* chmod a-r d
ThirdPartyChmod ==
    /\ Active
    /\ \E d \in dirs \ unreadable : unreadable' = unreadable \cup {d}
    /\ budget' = budget - 1
    /\ UNCHANGED << dirs, files, nowrite, inputVars, stack, pc, error, yielded, listed,
                    gone, skipped, rmVars >>

\* mkdir p
ThirdPartyMkdir ==
    /\ Active
    /\ \E d \in { x \in dirs : Len(x) < MaxDepth }, n \in DirNames :
         /\ Append(d, n) \notin dirs \cup files
         /\ dirs' = dirs \cup {Append(d, n)}
         /\ gone' = gone \ {Append(d, n)}
    /\ budget' = budget - 1
    /\ UNCHANGED << files, unreadable, nowrite, inputVars, stack, pc, error, yielded,
                    listed, skipped, rmVars >>

----------------------------------------------------------------------------
(* find_empty_directories, alone and with another process *)

FinderTrees == Trees(MaxEntries, DirNames, MaxDepth) \cup BadRoots

\* Without another process the traversal is short, and the trees may be larger.
AloneTrees == Trees(MaxAloneEntries, DirNames, MaxAloneDepth) \cup BadRoots

InitFinder(trees, budgets) ==
    /\ \E t \in trees :
         /\ dirs = t.dirs
         /\ files = t.files
         /\ initDirs = t.dirs
         /\ initFiles = t.files
    /\ unreadable = {}
    /\ nowrite = {}
    /\ recursively \in BOOLEAN
    /\ deleting \in BOOLEAN
    /\ budget \in budgets
    /\ extensions = << >>
    /\ excluded_dirs = {}
    /\ stack = << >>
    /\ pc = "init"
    /\ error = "none"
    /\ yielded = << >>
    /\ listed = {}
    /\ gone = {}
    /\ skipped = {}
    /\ rmArg = Root
    /\ rmResult = "none"
    /\ calls = 0

Init == InitFinder(FinderTrees, 0..MaxThird)

Traverse == Start \/ List \/ Loop \/ Check \/ Pull \/ PullAfterRemoving

Next == Traverse \/ ThirdPartyRemove \/ ThirdPartyChmod \/ ThirdPartyMkdir

Spec == Init /\ [][Next]_vars

InitAlone == InitFinder(AloneTrees, {0})

\* No other process: the generator runs and the consumer keeps pulling.
SpecAlone == InitAlone /\ [][Traverse]_vars /\ WF_vars(Traverse)

----------------------------------------------------------------------------
(* try_rmdir, called on any path of the tree, existing or not *)

RECURSIVE PathsUpTo(_, _)
PathsUpTo(names, depth) ==
    IF depth = 0 THEN { Root }
    ELSE LET shorter == PathsUpTo(names, depth - 1)
         IN  shorter \cup { Append(p, n) : p \in shorter, n \in names }

CallTryRmdir ==
    /\ pc = "idle"
    /\ calls < MaxCalls
    /\ \E folder \in PathsUpTo(DirNames, MaxDepth) :
         /\ rmArg' = folder
         /\ rmResult' = try_rmdir(folder)
         /\ dirs' = DirsAfterRmdir(folder)
    /\ calls' = calls + 1
    /\ UNCHANGED << files, unreadable, nowrite, inputVars, budget, stack, pc, error,
                    yielded, listed, gone, skipped >>

InitRmdir ==
    /\ \E t \in FinderTrees :
         /\ dirs = t.dirs
         /\ files = t.files
         /\ initDirs = t.dirs
         /\ initFiles = t.files
    /\ unreadable = {}
    /\ nowrite \in { {} } \cup { {d} : d \in dirs }
    /\ recursively = TRUE
    /\ deleting = FALSE
    /\ budget = 0
    /\ extensions = << >>
    /\ excluded_dirs = {}
    /\ stack = << >>
    /\ pc = "idle"
    /\ error = "none"
    /\ yielded = << >>
    /\ listed = {}
    /\ gone = {}
    /\ skipped = {}
    /\ rmArg = Root
    /\ rmResult = "none"
    /\ calls = 0

SpecRmdir == InitRmdir /\ [][CallTryRmdir]_vars

----------------------------------------------------------------------------
(* find_files *)

WILDCARD_EXTENSION == << ".", "*" >>

matches_any_extension(filepath, exts) ==
    \E i \in 1..Len(exts) :
        exts[i] = WILDCARD_EXTENSION \/ suffix(filepath) = exts[i]

ExcludedAtTopOnly(path) == Len(path) = 1 /\ Name(path) \in excluded_dirs

\* "path.name in excluded_dirs"
Excluded(path) == Name(path) \in excluded_dirs

\* The body of _find_files is the loop alone.
FilesBody == << "loop" >>

\* The first pull enters _find_files(root): there is no check of root.
FilesStart ==
    /\ pc = "init"
    /\ stack' = << NewFrame(Root) >>
    /\ pc' = "run"
    /\ UNCHANGED << fsVars, inputVars, budget, error, yielded, listed, gone, skipped, rmVars >>

FilesList ==
    /\ pc = "run"
    /\ ~Top.listed
    /\ listed' = listed \cup {Top.root}
    /\ IF iterdirFails(Top.root)
       THEN Raise("OSError")
       ELSE /\ stack' = Settle(<< [Top EXCEPT !.listed = TRUE,
                                              !.pending = iterdir(Top.root)] >>
                                \o Tail(stack), FilesBody)
            /\ pc' = PcAfter(stack')
            /\ error' = error
    /\ UNCHANGED << fsVars, inputVars, budget, yielded, gone, skipped, rmVars >>

FilesLoop ==
    /\ pc = "run"
    /\ Top.listed
    /\ \E path \in Top.pending :
         LET rest == << [Top EXCEPT !.pending = @ \ {path}] >> \o Tail(stack)
         IN  IF is_dir(path) /\ ~Excluded(path)
             THEN /\ stack' = << NewFrame(path) >> \o rest
                  /\ pc' = "run"
                  /\ yielded' = yielded
             ELSE IF ~is_dir(path) /\ matches_any_extension(path, extensions)
             THEN /\ stack' = rest
                  /\ pc' = "yield"
                  /\ yielded' = Append(yielded, path)
             ELSE /\ stack' = Settle(rest, FilesBody)
                  /\ pc' = PcAfter(stack')
                  /\ yielded' = yielded
    /\ UNCHANGED << fsVars, inputVars, budget, error, listed, gone, skipped, rmVars >>

FilesPull ==
    /\ pc = "yield"
    /\ stack' = Settle(stack, FilesBody)
    /\ pc' = PcAfter(stack')
    /\ UNCHANGED << fsVars, inputVars, budget, error, yielded, listed, gone, skipped, rmVars >>

ExtensionChoices ==
    { << >>,
      << <<".", "t">> >>,
      << WILDCARD_EXTENSION >>,
      << << >> >>,
      << <<".", "p">>, <<".", "t">> >> }

ExcludedChoices == SUBSET { <<"d">>, <<".", "t">> }

InitFiles ==
    /\ \E t \in Trees(MaxFileEntries, FileTreeNames, MaxFileDepth) \cup BadRoots :
         /\ dirs = t.dirs
         /\ files = t.files
         /\ initDirs = t.dirs
         /\ initFiles = t.files
    /\ unreadable = {}
    /\ nowrite = {}
    /\ recursively = TRUE
    /\ deleting = FALSE
    /\ budget = 0
    /\ extensions \in ExtensionChoices
    /\ excluded_dirs \in ExcludedChoices
    /\ stack = << >>
    /\ pc = "init"
    /\ error = "none"
    /\ yielded = << >>
    /\ listed = {}
    /\ gone = {}
    /\ skipped = {}
    /\ rmArg = Root
    /\ rmResult = "none"
    /\ calls = 0

NextFiles == FilesStart \/ FilesList \/ FilesLoop \/ FilesPull

SpecFiles == InitFiles /\ [][NextFiles]_vars

----------------------------------------------------------------------------
(* What the claims speak of *)

YieldedSet == { yielded[i] : i \in 1..Len(yielded) }

Position(p) == CHOOSE i \in 1..Len(yielded) : yielded[i] = p

InitChildren(p) == ChildrenIn(initDirs \cup initFiles, p)

\* No file anywhere in the initial subtree of d.
FileFree(d) == \A f \in initFiles : ~IsProperPrefix(d, f)

\* The directories whose children were all directories, each of them yielded.
EmptiedParents ==
    { p \in initDirs : /\ InitChildren(p) # {}
                       /\ InitChildren(p) \subseteq initDirs
                       /\ InitChildren(p) \subseteq YieldedSet }

Finished == pc = "done"

----------------------------------------------------------------------------
(* Claims about find_empty_directories *)

\* C1: recursive mode, the consumer removes each yielded directory, nothing else
\* changes the tree: a directory that at first held only subdirectories, all of
\* them yielded (and removed), is itself yielded after them in the same traversal.
C1_EmptiedParentIsYielded ==
    (Finished /\ recursively /\ deleting) =>
        \A p \in EmptiedParents :
            /\ p \in YieldedSet
            /\ \A c \in InitChildren(p) : Position(c) < Position(p)

C1_Witness ==
    /\ Finished /\ recursively /\ deleting
    /\ \E p \in EmptiedParents :
         /\ p # Root
         /\ Cardinality(InitChildren(p)) = 2
         /\ p \in YieldedSet
    /\ initFiles # {}

\* C2: post-order. Of two yielded directories, one a proper ancestor of the
\* other, the descendant was yielded first; whatever the consumer does and
\* whatever another process does to the tree.
C2_PostOrder ==
    \A i, j \in 1..Len(yielded) :
        IsProperPrefix(yielded[i], yielded[j]) => j < i

C2_Witness ==
    \E i, j \in 1..Len(yielded) :
        /\ IsProperPrefix(yielded[i], yielded[j])
        /\ j < i
        /\ yielded[i] # Root

\* C3: recursive mode, the tree is not modified: the yielded paths are exactly
\* the directories of the tree (root counts as one of them) that have no entry
\* at all; a directory holding a file or a subdirectory is never yielded.
C3_ExactlyTheEmptyDirectories ==
    (recursively /\ ~deleting) =>
        /\ \A i \in 1..Len(yielded) :
             /\ yielded[i] \in initDirs
             /\ InitChildren(yielded[i]) = {}
        /\ Finished => YieldedSet = { d \in initDirs : InitChildren(d) = {} }

C3_Witness ==
    /\ Finished /\ recursively /\ ~deleting
    /\ Len(yielded) = 2
    /\ \E d \in initDirs : d # Root /\ InitChildren(d) \cap initFiles # {}
    /\ \E d \in initDirs : d # Root /\ InitChildren(d) # {} /\ InitChildren(d) \subseteq initDirs

\* C4: with recursively=False the yielded paths are exactly the empty direct
\* child directories of root, and root itself is never yielded.
C4_NonRecursiveYieldsEmptyChildren ==
    (Finished /\ ~recursively) =>
        YieldedSet = { d \in initDirs : Len(d) = 1 /\ InitChildren(d) = {} }

\* C5: a root that is not an existing directory fails with ValueError at once:
\* nothing was listed and nothing was yielded before the error.
C5_InvalidRootFailsFirst ==
    /\ (Root \notin initDirs /\ pc # "init") =>
          /\ pc = "raised"
          /\ error = "ValueError"
          /\ yielded = << >>
          /\ listed = {}
    /\ error = "ValueError" => Root \notin initDirs

C5_Witness == error = "ValueError" /\ Root \in initFiles

\* C6: no path occurs twice in the produced sequence.
C6_YieldedOnce ==
    \A i, j \in 1..Len(yielded) : yielded[i] = yielded[j] => i = j

C6_Witness ==
    /\ Finished
    /\ Len(yielded) = 3
    /\ budget = 0

\* What a listing of p would do now, read from the tree itself.
Unlistable(p) == p \notin dirs \/ p \in unreadable

TraversalStep == stack' # stack \/ pc' # pc

AboutToList == FindBody[Top.ip] = "check" \/ ~Top.listed

\* C9, as claimed: a subdirectory seen in its parent's listing and removed by
\* another process before the traversal reaches it is never passed over in
\* silence.
C9_NoSilentSkip == skipped = {}

\* C9, amended: a listing that fails (the directory was removed after it was
\* found to be a directory, or is unreadable) ends the generator with an I/O
\* error at that pull, and nothing is yielded after it; a subdirectory removed
\* before is_dir() tests it is passed over without an error.
C9_ListingErrorsPropagate ==
    [][ /\ (pc = "run" /\ TraversalStep /\ AboutToList /\ Unlistable(Top.root)) =>
              (pc' = "raised" /\ error' = "OSError" /\ yielded' = yielded)
        /\ (pc = "raised") => (pc' = "raised" /\ yielded' = yielded /\ error' = error)
        /\ (skipped' # skipped) => (pc' # "raised" /\ error' = "none" /\ yielded' = yielded)
      ]_vars

C9_Witness ==
    /\ pc = "raised"
    /\ error = "OSError"
    /\ yielded # << >>
    /\ skipped # {}

\* C10: recursive mode, the consumer removes each yielded directory, nothing
\* else changes the tree: the traversal ends, and by then the yielded
\* directories are exactly those of the initial tree (root too) whose subtree
\* holds no file; no empty directory is left, and root is yielded last when the
\* tree holds no file at all.
C10_RemovingConsumerEmptiesTheTree ==
    /\ (pc = "init" /\ recursively /\ deleting /\ Root \in dirs) ~> Finished
    /\ [](Finished /\ recursively /\ deleting =>
            /\ YieldedSet = { d \in initDirs : FileFree(d) }
            /\ \A d \in dirs : iterdir(d) # {}
            /\ initFiles = {} => (yielded # << >> /\ yielded[Len(yielded)] = Root))

C10_Witness ==
    /\ Finished /\ recursively /\ deleting
    /\ initFiles = {}
    /\ Len(yielded) = 4
    /\ dirs = {}

----------------------------------------------------------------------------
(* Claims about try_rmdir and find_files *)

\* C7: try_rmdir never raises. On an existing empty directory (that may be
\* removed) it removes it and returns True; on a non-empty directory, a missing
\* path, a non-directory or a permission failure it returns False and the tree
\* is as it was.
C7_TryRmdirReportsABoolean ==
    [][ calls' # calls =>
          IF /\ rmArg' \in dirs
             /\ ChildrenIn(dirs \cup files, rmArg') = {}
             /\ (rmArg' = Root \/ Parent(rmArg') \notin nowrite)
          THEN rmResult' = "True" /\ dirs' = dirs \ {rmArg'} /\ files' = files
          ELSE rmResult' = "False" /\ dirs' = dirs /\ files' = files
      ]_vars

C7_Witness ==
    /\ calls = 2
    /\ rmResult = "True"
    /\ rmArg # Root
    /\ rmArg \notin dirs
    /\ nowrite # {}

\* The files find_files is to produce: the suffix is one of the extensions (or
\* the wildcard is among them) and no directory between root and the file bears
\* an excluded name.
Allowed(f) ==
    \E i \in 1..Len(extensions) :
        extensions[i] = << ".", "*" >> \/ suffix(f) = extensions[i]

UnderExcluded(f) == \E k \in 1..(Len(f) - 1) : f[k] \in excluded_dirs

\* C8: find_files yields exactly the non-directory entries below root with an
\* allowed suffix and no excluded directory above them, at any depth, each once.
C8_FindFilesExactly ==
    /\ \A i \in 1..Len(yielded) :
         /\ yielded[i] \in files
         /\ Allowed(yielded[i])
         /\ ~UnderExcluded(yielded[i])
    /\ \A i, j \in 1..Len(yielded) : yielded[i] = yielded[j] => i = j
    /\ Finished => YieldedSet = { f \in files : Allowed(f) /\ ~UnderExcluded(f) }

C8_Witness ==
    /\ Finished
    /\ extensions = << <<".", "t">> >>
    /\ yielded # << >>
    /\ \E f \in files : Allowed(f) /\ UnderExcluded(f)
    /\ \E f \in files : ~Allowed(f) /\ ~UnderExcluded(f)

====
